---- MODULE Spec2Model ----
(***************************************************************************)
(* CodeChangesChatAgent.run (chat_agents/code_changes_chat_agent.py) and   *)
(* CustomAgent.run (custom_agents/custom_agent.py) as state machines.      *)
(*                                                                         *)
(* A run is an async generator: it executes atomically between two         *)
(* suspension points (an await of a collaborator, or a yield to the        *)
(* consumer), so there is one action per resumption.  Several runs, on the *)
(* same or on different agent instances, interleave at those points.       *)
(*                                                                         *)
(* Collaborators whose code is outside the two files (Prompt Service,      *)
(* Provider Service, History Manager, RateLimiter) are the environment:    *)
(* their answers are drawn nondeterministically.                           *)
(***************************************************************************)
EXTENDS Integers, Sequences, FiniteSets, TLC

(* ------------------------------ bounds -------------------------------- *)
NumCodeChanges == 3
NumCustom == 1
MaxActive == 2
MaxHandles == 2
CountCap == 2
MaxHistLen == 2

(* -------------------------- program constants ------------------------- *)
LruMaxsize == 2
AcquireTimeout == 30

CodeChangesAgents == 1..NumCodeChanges
CustomAgents == (NumCodeChanges + 1)..(NumCodeChanges + NumCustom)
Agents == CodeChangesAgents \cup CustomAgents
Slots == 1..MaxActive
PromptTypes == {"SYSTEM", "HUMAN"}

\* What the Prompt Service may hold for CODE_CHANGES_AGENT.
PromptStores == {{"SYSTEM", "HUMAN"}, {"SYSTEM"}, {"HUMAN"}}

Min(a, b) == IF a < b THEN a ELSE b

(* ----------------------------- exceptions ----------------------------- *)
NoExc == [cls |-> "", msg |-> ""]
Exc(cls, msg) == [cls |-> cls, msg |-> msg]

\* Classes deriving from Exception among those the model raises; the others
\* (CancelledError, GeneratorExit) derive from BaseException only.
ExceptionClasses ==
    {"Exception", "ValueError", "RuntimeError", "AttributeError", "TimeoutError",
     "ProviderError", "PromptServiceError", "HistoryError"}

\* Attributes bound on an instance: those __init__ assigns plus the methods
\* of the class.
CodeChangesAttrs ==
    {"mini_llm", "_llm", "_llm_provider", "history_manager", "prompt_service",
     "agents_service", "chain", "db", "llm_rate_limiter",
     "_get_llm", "_get_prompts", "_create_chain", "_classify_query", "run"}

CustomAgentAttrs ==
    {"db", "agent_id", "user_id", "_llm", "_llm_provider", "history_manager",
     "prompt_service", "custom_agents_service", "chain", "base_url",
     "_get_llm", "_create_chain", "run"}

\* self.<name>: the attribute, or Python's AttributeError.
GetAttr(clsname, attrs, name) ==
    IF name \in attrs
    THEN NoExc
    ELSE Exc("AttributeError",
             "'" \o clsname \o "' object has no attribute '" \o name \o "'")

(* ------------------------ error texts as characters ------------------- *)
ProviderErrors ==
    {Exc("ProviderError", "HTTP 429"),
     Exc("ProviderError", "Quota Exceeded"),
     Exc("ProviderError", "boom")}

OverloadedMsg == "Service is currently overloaded. Please try again later."
PromptsMissingMsg == "Required prompts not found for CODE_CHANGES_AGENT"
ReuseMsg == "cannot reuse already awaited coroutine"
BeingAwaitedMsg == "coroutine is being awaited already"

Chars(s) ==
    CASE s = "HTTP 429" -> <<"H", "T", "T", "P", " ", "4", "2", "9">>
      [] s = "Quota Exceeded" ->
            <<"Q", "u", "o", "t", "a", " ", "E", "x", "c", "e", "e", "d", "e", "d">>
      [] s = "quota exceeded" ->
            <<"q", "u", "o", "t", "a", " ", "e", "x", "c", "e", "e", "d", "e", "d">>
      [] s = "boom" -> <<"b", "o", "o", "m">>
      [] s = "429" -> <<"4", "2", "9">>
      [] OTHER -> <<>>

LowerChar(c) ==
    CASE c = "Q" -> "q" [] c = "E" -> "e" [] c = "H" -> "h"
      [] c = "T" -> "t" [] c = "P" -> "p" [] OTHER -> c

Lower(cs) == [i \in DOMAIN cs |-> LowerChar(cs[i])]

Contains(hay, needle) ==
    \E i \in 1..(Len(hay) - Len(needle) + 1) :
        SubSeq(hay, i, i + Len(needle) - 1) = needle

\* "429" in str(e) or "quota exceeded" in str(e).lower()
IsQuotaError(e) ==
    \/ Contains(Chars(e.msg), Chars("429"))
    \/ Contains(Lower(Chars(e.msg)), Chars("quota exceeded"))

(* ------------------------------- history ------------------------------ *)
StrEntry(s) == [t |-> "str", s |-> s, n |-> 0, f |-> 0, role |-> ""]
IntEntry(n) == [t |-> "int", s |-> "", n |-> n, f |-> 0, role |-> ""]
FloatEntry(n, f) == [t |-> "float", s |-> "", n |-> n, f |-> f, role |-> ""]
BoolEntry(b) == [t |-> "bool", s |-> "", n |-> IF b THEN 1 ELSE 0, f |-> 0, role |-> ""]
NoneEntry == [t |-> "NoneType", s |-> "", n |-> 0, f |-> 0, role |-> ""]
Message(role, content) == [t |-> "Message", s |-> content, n |-> 0, f |-> 0, role |-> role]
HumanMessage(content) == Message("human", content)

\* str(msg) of a primitive: the text itself, the decimal digits of an int,
\* "<int part>.<fraction digit>" of a float.
Str(e) ==
    CASE e.t = "str" -> e.s
      [] e.t = "int" -> ToString(e.n)
      [] e.t = "float" -> ToString(e.n) \o "." \o ToString(e.f)
      [] e.t = "bool" -> IF e.n = 1 THEN "True" ELSE "False"
      [] OTHER -> e.t

\* isinstance(msg, (str, int, float)); bool is a subclass of int
IsPrimitive(e) == e.t \in {"str", "int", "float", "bool"}

\* mutant: only str entries are coerced (isinstance(msg, str))
ValidateEntry_StrOnly(e) == IF e.t = "str" THEN HumanMessage(Str(e)) ELSE e

ValidateEntry(e) == IF IsPrimitive(e) THEN HumanMessage(Str(e)) ELSE e

ValidateHistory(h) == [i \in DOMAIN h |-> ValidateEntry(h[i])]


HistEntries ==
    {StrEntry("hi"), StrEntry(""), IntEntry(7), IntEntry(-3), FloatEntry(1, 5),
     BoolEntry(TRUE), Message("ai", "yo"), Message("human", "7"), NoneEntry}

AllHistories == UNION {[1..n -> HistEntries] : n \in 0..MaxHistLen}

\* What get_session_history answers in a run: it raises, or returns a sequence.
RunHistories == {<<IntEntry(7), Message("ai", "yo")>>}
HistoryOutcomes ==
    {[ok |-> FALSE, h |-> <<>>]} \cup {[ok |-> TRUE, h |-> h] : h \in RunHistories}

(* ------------------------------- state -------------------------------- *)
VARIABLES
    self_chain,     \* per agent: self.chain ([built, template, llm])
    self_llm,       \* per CodeChanges/Custom agent: self._llm (0 is None)
    prompt_cache,   \* the lru_cache of CodeChangesChatAgent._get_prompts
    limiter,        \* the "LLM_API" RateLimiter
    prompt_store,   \* the prompt types the Prompt Service holds for the agent
    next_handle,    \* the next model handle the provider hands out
    runs,           \* per slot: one run (async generator) and its locals
    chain_assigns,  \* per agent: times self.chain was assigned (capped)
    llm_returned,   \* per agent: _get_llm has returned a handle
    quota_raised,   \* the provider has raised a quota error in some run
    build_failed,   \* per CodeChanges agent: self.chain is unset and a run
                    \* has ended in an error raised during chain build
    hv_in, hv_out, hv_pass   \* history validation applied on its own

vars == <<self_chain, self_llm, prompt_cache, limiter, prompt_store,
          next_handle, runs, chain_assigns, llm_returned, quota_raised,
          build_failed, hv_in, hv_out, hv_pass>>

NoChain == [built |-> FALSE, template |-> {}, llm |-> 0]

IdleRun ==
    [agent |-> 0, pc |-> "idle", events |-> <<>>,
     asked |-> "no", prompts |-> {}, offered |-> {},
     acquires |-> 0, provider_calls |-> 0, got_llm |-> 0, late |-> FALSE,
     fault |-> FALSE, timed_out |-> FALSE, raised |-> NoExc,
     history |-> <<>>, validated |-> <<>>, fetched_history |-> FALSE,
     classify_raised |-> FALSE, classification |-> "",
     tool_calls |-> 0, stream_started |-> FALSE, history_writes |-> 0,
     retry |-> FALSE]

Init ==
    /\ self_chain = [a \in Agents |-> NoChain]
    /\ self_llm = [a \in Agents |-> 0]
    /\ prompt_cache = <<>>
    /\ limiter = [quota_exceeded |-> FALSE]
    /\ prompt_store \in PromptStores
    /\ next_handle = 1
    /\ runs = [r \in Slots |-> IdleRun]
    /\ chain_assigns = [a \in Agents |-> 0]
    /\ llm_returned = [a \in Agents |-> FALSE]
    /\ quota_raised = FALSE
    /\ build_failed = [a \in CodeChangesAgents |-> FALSE]
    /\ hv_in = <<>>
    /\ hv_out = <<>>
    /\ hv_pass = 0

(* ---------------------------- the limiter ----------------------------- *)
HandleQuotaExceeded(l) == [l EXCEPT !.quota_exceeded = TRUE]

\* asyncio.wait_for(acquire(), timeout=30): the wait ends in time or not.
AcquireDelays == {0, 29, 31}
AcquiredInTime(d) == d < AcquireTimeout

(* ------------------------------ lru_cache ----------------------------- *)
LruIndex(cache, a) == CHOOSE i \in DOMAIN cache : cache[i].key = a
LruHit(cache, a) == \E i \in DOMAIN cache : cache[i].key = a
LruWithout(cache, i) == SubSeq(cache, 1, i - 1) \o SubSeq(cache, i + 1, Len(cache))
\* a hit makes the entry the most recently used
LruTouch(cache, a) ==
    LET i == LruIndex(cache, a) IN Append(LruWithout(cache, i), cache[i])
\* a miss stores the new entry, dropping the least recently used when full
LruInsert(cache, e) ==
    IF Len(cache) >= LruMaxsize THEN Append(Tail(cache), e) ELSE Append(cache, e)
\* the coroutine run r awaits has finished
LruFinish(cache, r) ==
    [i \in DOMAIN cache |->
        IF cache[i].awaiter = r THEN [cache[i] EXCEPT !.awaiter = 0] ELSE cache[i]]

(* --------------------------- run: the boundary ------------------------ *)
ErrorEvent(e) == [json |-> FALSE, text |-> "An error occurred: " \o e.msg]

\* mutant: the handler catches ValueError only
CaughtByRun_ValueErrorOnly(e) == e.cls = "ValueError"

\* except Exception as e
CaughtByRun(e) == e.cls \in ExceptionClasses

\* the handler of run: one error event, or the exception leaves the generator
RunExcept(run, e) ==
    IF CaughtByRun(e)
    THEN [run EXCEPT !.pc = "yielded_error", !.raised = e,
                     !.events = Append(@, ErrorEvent(e))]
    ELSE [run EXCEPT !.pc = "propagated", !.raised = e]

\* chain = prompt_with_parser | self.llm | parser
ClassifyQuery == GetAttr("CodeChangesChatAgent", CodeChangesAttrs, "llm")

\* system_prompt = await self._get_system_prompt()
CustomCreateChain == GetAttr("CustomAgent", CustomAgentAttrs, "_get_system_prompt")

\* mutant: a classification that raised is taken as NO_AGENT_REQUIRED and the
\* run goes on to the model stream
AfterClassify_Fallback(run, c) ==
    IF c # NoExc
    THEN [run EXCEPT !.classify_raised = TRUE,
                     !.classification = "NO_AGENT_REQUIRED",
                     !.stream_started = TRUE, !.pc = "await_chunk"]
    ELSE [run EXCEPT !.pc = "await_classifier"]

\* classification = await self._classify_query(...): an exception raised in
\* _classify_query reaches the handler of run; nothing in between catches it.
AfterClassify(run, c) ==
    IF c # NoExc
    THEN RunExcept([run EXCEPT !.classify_raised = TRUE], c)
    ELSE [run EXCEPT !.pc = "await_classifier"]

\* CodeChangesChatAgent.run from the history fetch on, up to its next
\* suspension point.
RunTail(run, hist) ==
    IF ~hist.ok
    THEN RunExcept([run EXCEPT !.fault = TRUE],
                   Exc("HistoryError", "history unavailable"))
    ELSE LET run1 == [run EXCEPT !.history = hist.h, !.fetched_history = TRUE,
                                 !.validated = ValidateHistory(hist.h)]
         IN AfterClassify(run1, ClassifyQuery)


(* ------------------------------ _get_llm ------------------------------ *)
\* mutant: the timeout is re-raised as it is (its text is empty)
GetLlmOnTimeout_Reraise == Exc("TimeoutError", "")

\* mutant: the quota test is dropped, the limiter is never told
GetLlmOnError_NoSignal(l, e) == l

\* mutant: every error caught in _get_llm is taken for a quota error
GetLlmOnError_AnyError(l, e) == HandleQuotaExceeded(l)

\* except asyncio.TimeoutError: raise Exception("Service is currently ...")
GetLlmOnTimeout == Exc("Exception", OverloadedMsg)

\* except Exception as e: the limiter after the quota test, before the re-raise
GetLlmOnError(l, e) == IF IsQuotaError(e) THEN HandleQuotaExceeded(l) ELSE l

(* ------------------------------- actions ------------------------------ *)
LowestIdle(r) ==
    /\ runs[r].pc = "idle"
    /\ \A q \in Slots : q < r => runs[q].pc # "idle"

SetRun(r, rec) == runs' = [runs EXCEPT ![r] = rec]

\* a run of CodeChangesChatAgent in which a collaborator failed inside
\* self._create_chain() (Prompt Service, missing prompt, limiter, provider):
\* _get_llm had not returned to it
EndedInChainBuild(run) ==
    run.agent \in CodeChangesAgents /\ run.fault /\ run.got_llm = 0

\* a new generator; retry records that self.chain is unset after an earlier
\* run on the instance ended in an error during chain build
NewRun(a) ==
    [IdleRun EXCEPT !.agent = a,
                    !.retry = a \in CodeChangesAgents /\ build_failed[a]]

\* self.chain = await self._create_chain(), once _get_llm has returned handle h
AssignChain(a, template, h) ==
    /\ self_chain' = [self_chain EXCEPT
                         ![a] = [built |-> TRUE, template |-> template, llm |-> h]]
    /\ chain_assigns' = [chain_assigns EXCEPT ![a] = Min(@ + 1, CountCap)]
    /\ llm_returned' = [llm_returned EXCEPT ![a] = TRUE]
    /\ build_failed' = [build_failed EXCEPT ![a] = FALSE]

\* CustomAgent.run, first pull: self.chain is unset, _create_chain is entered.
StartCustom(r, a) ==
    /\ LowestIdle(r)
    /\ a \in CustomAgents
    /\ ~self_chain[a].built
    /\ SetRun(r, IF CustomCreateChain # NoExc
                 THEN RunExcept(NewRun(a), CustomCreateChain)
                 ELSE [NewRun(a) EXCEPT !.pc = "await_system_prompt"])
    /\ UNCHANGED <<self_chain, self_llm, prompt_cache, limiter, prompt_store,
                   next_handle, chain_assigns, llm_returned, quota_raised, build_failed, hv_in, hv_out, hv_pass>>

\* CodeChangesChatAgent.run, first pull, self.chain already set.
StartChainBuilt(r, a, hist) ==
    /\ LowestIdle(r)
    /\ a \in CodeChangesAgents
    /\ self_chain[a].built
    /\ SetRun(r, RunTail(NewRun(a), hist))
    /\ UNCHANGED <<self_chain, self_llm, prompt_cache, limiter, prompt_store,
                   next_handle, chain_assigns, llm_returned, quota_raised, build_failed, hv_in, hv_out, hv_pass>>

\* First pull, self.chain unset, _get_prompts() answered by the lru_cache: the
\* cached value is the coroutine object of the first call, and awaiting it a
\* second time raises RuntimeError.
StartPromptsCached(r, a) ==
    /\ LowestIdle(r)
    /\ a \in CodeChangesAgents
    /\ ~self_chain[a].built
    /\ LruHit(prompt_cache, a)
    /\ prompt_cache' = LruTouch(prompt_cache, a)
    /\ LET coro == prompt_cache[LruIndex(prompt_cache, a)]
           e == Exc("RuntimeError",
                    IF coro.awaiter # 0 THEN BeingAwaitedMsg ELSE ReuseMsg)
       IN SetRun(r, RunExcept([NewRun(a) EXCEPT !.asked = "cached",
                                                !.offered = prompt_store], e))
    /\ UNCHANGED <<self_chain, self_llm, limiter, prompt_store,
                   next_handle, chain_assigns, llm_returned, quota_raised, build_failed, hv_in, hv_out, hv_pass>>

\* First pull, self.chain unset, lru_cache miss: the coroutine is created,
\* stored, and awaited up to the Prompt Service call.
StartPromptsFetch(r, a) ==
    /\ LowestIdle(r)
    /\ a \in CodeChangesAgents
    /\ ~self_chain[a].built
    /\ ~LruHit(prompt_cache, a)
    /\ prompt_cache' = LruInsert(prompt_cache, [key |-> a, awaiter |-> r])
    /\ SetRun(r, [NewRun(a) EXCEPT !.pc = "await_prompts", !.asked = "fetched"])
    /\ UNCHANGED <<self_chain, self_llm, limiter, prompt_store,
                   next_handle, chain_assigns, llm_returned, quota_raised, build_failed, hv_in, hv_out, hv_pass>>

\* The Prompt Service call raises.
PromptsRaise(r) ==
    /\ runs[r].pc = "await_prompts"
    /\ prompt_cache' = LruFinish(prompt_cache, r)
    /\ SetRun(r, RunExcept([runs[r] EXCEPT !.fault = TRUE],
                           Exc("PromptServiceError", "prompt service unavailable")))
    /\ UNCHANGED <<self_chain, self_llm, limiter, prompt_store,
                   next_handle, chain_assigns, llm_returned, quota_raised, build_failed, hv_in, hv_out, hv_pass>>

\* The Prompt Service returns what it holds; a type is missing.
PromptsMissing(r) ==
    /\ runs[r].pc = "await_prompts"
    /\ ~(PromptTypes \subseteq prompt_store)
    /\ prompt_cache' = LruFinish(prompt_cache, r)
    /\ SetRun(r, RunExcept([runs[r] EXCEPT !.fault = TRUE, !.prompts = prompt_store,
                                           !.offered = prompt_store],
                           Exc("ValueError", PromptsMissingMsg)))
    /\ UNCHANGED <<self_chain, self_llm, limiter, prompt_store,
                   next_handle, chain_assigns, llm_returned, quota_raised, build_failed, hv_in, hv_out, hv_pass>>

\* Both prompts are returned: the template is built and _get_llm starts its
\* wait for the limiter.
PromptsFound(r) ==
    /\ runs[r].pc = "await_prompts"
    /\ PromptTypes \subseteq prompt_store
    /\ prompt_cache' = LruFinish(prompt_cache, r)
    /\ SetRun(r, [runs[r] EXCEPT !.pc = "await_acquire", !.prompts = prompt_store,
                                 !.offered = prompt_store,
                                 !.acquires = @ + 1,
                                 !.late = llm_returned[runs[r].agent]])
    /\ UNCHANGED <<self_chain, self_llm, limiter, prompt_store,
                   next_handle, chain_assigns, llm_returned, quota_raised, build_failed, hv_in, hv_out, hv_pass>>

\* wait_for expires.
AcquireTimedOut(r) ==
    /\ runs[r].pc = "await_acquire"
    /\ \E d \in AcquireDelays : ~AcquiredInTime(d)
    /\ SetRun(r, RunExcept([runs[r] EXCEPT !.fault = TRUE, !.timed_out = TRUE],
                           GetLlmOnTimeout))
    /\ UNCHANGED <<self_chain, self_llm, prompt_cache, limiter, prompt_store,
                   next_handle, chain_assigns, llm_returned, quota_raised, build_failed, hv_in, hv_out, hv_pass>>

\* The limiter is acquired and self._llm is None: the provider is asked.
AcquireThenProvider(r) ==
    /\ runs[r].pc = "await_acquire"
    /\ \E d \in AcquireDelays : AcquiredInTime(d)
    /\ self_llm[runs[r].agent] = 0
    /\ SetRun(r, [runs[r] EXCEPT !.pc = "await_provider", !.provider_calls = @ + 1])
    /\ UNCHANGED <<self_chain, self_llm, prompt_cache, limiter, prompt_store,
                   next_handle, chain_assigns, llm_returned, quota_raised, build_failed, hv_in, hv_out, hv_pass>>

\* The limiter is acquired and self._llm is set: it is returned, the chain is
\* assigned and run goes on to the history fetch.
AcquireCachedLlm(r, hist) ==
    /\ runs[r].pc = "await_acquire"
    /\ \E d \in AcquireDelays : AcquiredInTime(d)
    /\ self_llm[runs[r].agent] # 0
    /\ AssignChain(runs[r].agent, runs[r].prompts, self_llm[runs[r].agent])
    /\ SetRun(r, RunTail([runs[r] EXCEPT !.got_llm = self_llm[runs[r].agent]], hist))
    /\ UNCHANGED <<self_llm, prompt_cache, limiter, prompt_store,
                   next_handle, quota_raised, hv_in, hv_out, hv_pass>>

\* The provider returns a model handle.
ProviderOk(r, hist) ==
    /\ runs[r].pc = "await_provider"
    /\ next_handle <= MaxHandles
    /\ self_llm' = [self_llm EXCEPT ![runs[r].agent] = next_handle]
    /\ next_handle' = next_handle + 1
    /\ AssignChain(runs[r].agent, runs[r].prompts, next_handle)
    /\ SetRun(r, RunTail([runs[r] EXCEPT !.got_llm = next_handle], hist))
    /\ UNCHANGED <<prompt_cache, limiter, prompt_store, quota_raised, hv_in, hv_out, hv_pass>>

\* The provider raises.
ProviderRaises(r, e) ==
    /\ runs[r].pc = "await_provider"
    /\ e \in ProviderErrors
    /\ limiter' = GetLlmOnError(limiter, e)
    /\ quota_raised' = (quota_raised \/ IsQuotaError(e))
    /\ SetRun(r, RunExcept([runs[r] EXCEPT !.fault = TRUE], e))
    /\ UNCHANGED <<self_chain, self_llm, prompt_cache, prompt_store,
                   next_handle, chain_assigns, llm_returned, build_failed,
                   hv_in, hv_out, hv_pass>>

\* The consumer pulls past the error event (or closes the generator): the
\* generator ends without running anything more, and is dropped.
Finish(r) ==
    /\ runs[r].pc = "yielded_error"
    /\ SetRun(r, IdleRun)
    /\ build_failed' = IF EndedInChainBuild(runs[r]) /\ ~self_chain[runs[r].agent].built
                       THEN [build_failed EXCEPT ![runs[r].agent] = TRUE]
                       ELSE build_failed
    /\ UNCHANGED <<self_chain, self_llm, prompt_cache, limiter, prompt_store,
                   next_handle, chain_assigns, llm_returned, quota_raised, hv_in, hv_out, hv_pass>>

\* The prompts stored for the agent change.
PromptStoreUpdate(S) ==
    /\ S # prompt_store
    /\ prompt_store' = S
    /\ UNCHANGED <<self_chain, self_llm, prompt_cache, limiter,
                   next_handle, runs, chain_assigns, llm_returned, quota_raised, build_failed, hv_in, hv_out, hv_pass>>

Next ==
    \/ \E r \in Slots, a \in Agents : StartCustom(r, a)
    \/ \E r \in Slots, a \in Agents, hist \in HistoryOutcomes : StartChainBuilt(r, a, hist)
    \/ \E r \in Slots, a \in Agents : StartPromptsCached(r, a)
    \/ \E r \in Slots, a \in Agents : StartPromptsFetch(r, a)
    \/ \E r \in Slots : PromptsRaise(r)
    \/ \E r \in Slots : PromptsMissing(r)
    \/ \E r \in Slots : PromptsFound(r)
    \/ \E r \in Slots : AcquireTimedOut(r)
    \/ \E r \in Slots : AcquireThenProvider(r)
    \/ \E r \in Slots, hist \in HistoryOutcomes : AcquireCachedLlm(r, hist)
    \/ \E r \in Slots, hist \in HistoryOutcomes : ProviderOk(r, hist)
    \/ \E r \in Slots, e \in ProviderErrors : ProviderRaises(r, e)
    \/ \E r \in Slots : Finish(r)
    \/ \E S \in PromptStores : PromptStoreUpdate(S)

Spec == Init /\ [][Next]_vars


(* --------------- history validation, applied on its own --------------- *)
InitValidate ==
    /\ self_chain = [a \in Agents |-> NoChain]
    /\ self_llm = [a \in Agents |-> 0]
    /\ prompt_cache = <<>>
    /\ limiter = [quota_exceeded |-> FALSE]
    /\ prompt_store = PromptTypes
    /\ next_handle = 1
    /\ runs = [r \in Slots |-> IdleRun]
    /\ chain_assigns = [a \in Agents |-> 0]
    /\ llm_returned = [a \in Agents |-> FALSE]
    /\ quota_raised = FALSE
    /\ build_failed = [a \in CodeChangesAgents |-> FALSE]
    /\ hv_in \in AllHistories
    /\ hv_out = <<>>
    /\ hv_pass = 0

\* validated_history = [... for msg in history] on what the History Manager
\* returned
ValidateFetched ==
    /\ hv_pass = 0
    /\ hv_out' = ValidateHistory(hv_in)
    /\ hv_pass' = 1
    /\ UNCHANGED <<self_chain, self_llm, prompt_cache, limiter, prompt_store,
                   next_handle, runs, chain_assigns, llm_returned, quota_raised,
                   build_failed, hv_in>>

\* the same comprehension on a sequence that is already validated
ValidateAgain ==
    /\ hv_pass = 1
    /\ hv_in' = hv_out
    /\ hv_out' = ValidateHistory(hv_out)
    /\ hv_pass' = 2
    /\ UNCHANGED <<self_chain, self_llm, prompt_cache, limiter, prompt_store,
                   next_handle, runs, chain_assigns, llm_returned, quota_raised,
                   build_failed>>

NextValidate == ValidateFetched \/ ValidateAgain

SpecValidate == InitValidate /\ [][NextValidate]_vars


(* ------------------------------- claims ------------------------------- *)
IsCodeChangesRun(r) == runs[r].agent \in CodeChangesAgents
IsCustomRun(r) == runs[r].agent \in CustomAgents
ErrorEvents(r) == {i \in DOMAIN runs[r].events : ~runs[r].events[i].json}

\* C3 (as claimed): a run on a fresh instance in which no collaborator fails
\* emits chunk events only, one per model chunk, and no error event.
C3_OneEventPerChunk ==
    \A r \in Slots :
        (runs[r].agent # 0 /\ ~runs[r].fault /\ runs[r].asked # "cached")
            => ErrorEvents(r) = {}

\* C4: a run in which a step raised has emitted exactly one event of the form
\* "An error occurred: <description>", as its last event; the exception never
\* leaves the generator; and after that event the run only ends, touching no
\* collaborator and no instance state.
C4_Inv ==
    \A r \in Slots :
        /\ runs[r].pc # "propagated"
        /\ (ErrorEvents(r) # {}) <=> (runs[r].raised # NoExc)
        /\ runs[r].raised # NoExc =>
              /\ runs[r].pc = "yielded_error"
              /\ ErrorEvents(r) = {Len(runs[r].events)}
              /\ runs[r].events[Len(runs[r].events)] =
                    [json |-> FALSE,
                     text |-> "An error occurred: " \o runs[r].raised.msg]

C4_After ==
    \A r \in Slots :
        runs[r].pc = "yielded_error" =>
            \/ runs'[r] = runs[r]
            \/ /\ runs'[r] = IdleRun
               /\ UNCHANGED <<self_chain, self_llm, prompt_cache, limiter,
                              next_handle, chain_assigns, llm_returned>>

C4_ErrorBoundary == [](C4_Inv) /\ [][C4_After]_vars

\* C4 witness: a CodeChanges run whose classification step raised, after the
\* history was fetched, stands at its error event.
C4_Witness ==
    \E r \in Slots :
        /\ IsCodeChangesRun(r)
        /\ runs[r].pc = "yielded_error"
        /\ runs[r].fetched_history
        /\ runs[r].raised.cls = "AttributeError"

\* C5 (as claimed): every CodeChanges run, first or later on its instance, that
\* needs the prompts while the Prompt Service lacks one of the two types ends
\* with the single error event "Required prompts not found ...", without
\* touching the limiter, the provider or the history.
C5_MissingPrompt ==
    \A r \in Slots :
        (/\ IsCodeChangesRun(r)
         /\ runs[r].asked # "no"
         /\ runs[r].pc = "yielded_error"
         /\ ~(PromptTypes \subseteq runs[r].offered))
            => /\ runs[r].events =
                    <<[json |-> FALSE,
                       text |-> "An error occurred: Required prompts not found for CODE_CHANGES_AGENT"]>>
               /\ runs[r].acquires = 0
               /\ runs[r].provider_calls = 0
               /\ ~runs[r].fetched_history

\* C6: a run whose wait for the limiter timed out stands at one error event
\* carrying the overload text; it never asked the provider for a model, never
\* fetched history, never reached the classifier.
C6_LimiterTimeout ==
    \A r \in Slots :
        runs[r].timed_out =>
            /\ runs[r].pc = "yielded_error"
            /\ runs[r].events =
                  <<[json |-> FALSE,
                     text |-> "An error occurred: Service is currently overloaded. Please try again later."]>>
            /\ runs[r].provider_calls = 0
            /\ runs[r].got_llm = 0
            /\ ~runs[r].fetched_history

\* C6 witness: some run has timed out waiting for the limiter.
C6_Witness == \E r \in Slots : runs[r].timed_out /\ runs[r].acquires = 1

\* C7: once the provider has raised a quota error ("429" or "quota exceeded"
\* in its text), the shared limiter's quota-exceeded state is set: it is set
\* when the failing run's error event is out, and in every later state, for
\* the runs of every instance.
C7_QuotaText(msg) == msg \in {"HTTP 429", "Quota Exceeded"}

C8_ChainBuiltOnce == \A a \in Agents : chain_assigns[a] <= 1

\* C9 (as claimed): a call of _get_llm made after _get_llm has returned a
\* handle on the instance acquires no limiter slot and asks no provider.
C9_ModelClientCache ==
    \A r \in Slots :
        runs[r].late => (runs[r].acquires = 0 /\ runs[r].provider_calls = 0)

\* C10: validation keeps length and order; a str, int or float entry becomes
\* a human Message holding its string form; a Message passes unchanged; and
\* validating a validated sequence returns it unchanged.
C10_StringForm(e) ==
    CASE e = StrEntry("hi") -> "hi"
      [] e = StrEntry("") -> ""
      [] e = IntEntry(7) -> "7"
      [] e = IntEntry(-3) -> "-3"
      [] e = FloatEntry(1, 5) -> "1.5"
      [] OTHER -> "?"

C10_HistoryValidation ==
    /\ hv_pass >= 1 => Len(hv_out) = Len(hv_in)
    /\ hv_pass = 1 =>
          \A i \in DOMAIN hv_in :
              /\ hv_in[i].t \in {"str", "int", "float"} =>
                    /\ hv_out[i].t = "Message"
                    /\ hv_out[i].role = "human"
                    /\ hv_out[i].s = C10_StringForm(hv_in[i])
              /\ hv_in[i].t = "Message" => hv_out[i] = hv_in[i]
    /\ hv_pass = 2 => hv_out = hv_in

\* C10 witness: a sequence holding a primitive and a typed Message has been
\* validated.
C10_Witness ==
    /\ hv_pass = 1
    /\ \E i, j \in DOMAIN hv_in :
          /\ i < j
          /\ hv_in[i].t = "int"
          /\ hv_in[j].t = "Message"
          /\ hv_out[i] = Message("human", "7")

\* C13 (as claimed): a call of _get_prompts answered from the cache (a later
\* call on the instance while its entry is still cached) returns the prompt
\* pair: it does not raise, and it asks nothing of the Prompt Service.
C13_PromptCacheHit ==
    \A r \in Slots :
        (IsCodeChangesRun(r) /\ runs[r].asked = "cached")
            => /\ runs[r].raised.msg \notin {ReuseMsg, BeingAwaitedMsg}
               /\ runs[r].pc # "await_prompts"

\* C15: a run whose classification step raised took no fallback value for the
\* classification; it stands at exactly one event, the error event of that
\* exception; the tool agent was not invoked, the model stream was not
\* started and nothing was written to the history.
C15_ClassifyFailurePropagates ==
    \A r \in Slots :
        runs[r].classify_raised =>
            /\ runs[r].classification = ""
            /\ runs[r].pc = "yielded_error"
            /\ runs[r].events =
                  <<[json |-> FALSE,
                     text |-> "An error occurred: " \o runs[r].raised.msg]>>
            /\ runs[r].raised.cls = "AttributeError"
            /\ runs[r].tool_calls = 0
            /\ ~runs[r].stream_started
            /\ runs[r].history_writes = 0

\* C15 witness: a run that started with the chain already built has fetched
\* and validated its history, and its classification step has raised.
C15_Witness ==
    \E r \in Slots :
        /\ IsCodeChangesRun(r)
        /\ runs[r].asked = "no"
        /\ runs[r].classify_raised
        /\ runs[r].validated # <<>>

\* C18 (as claimed): a run started on an instance whose chain is unset after
\* an earlier run ended in an error during chain build, and in which no
\* collaborator fails (both prompts are stored, the limiter is acquired in
\* time, the provider and the history answer), does not end in an error
\* before the chain is assigned: it got the prompts and the model handle.
C18_BuildFailureNotSticky ==
    \A r \in Slots :
        (/\ IsCodeChangesRun(r)
         /\ runs[r].retry
         /\ ~runs[r].fault
         /\ PromptTypes \subseteq runs[r].offered
         /\ runs[r].pc = "yielded_error")
            => /\ runs[r].prompts = PromptTypes
               /\ runs[r].got_llm # 0
               /\ self_chain[runs[r].agent].built

\* C19: the limiter's quota-exceeded state changes only in a step in which
\* _get_llm catches an error of the provider call, and in such a step it is
\* set exactly when the error's text holds "429" or, in any letter case,
\* "quota exceeded"; a limiter timeout, an error with another text, a
\* successful acquisition and every other step leave the state as it was.
C19_Step ==
    /\ \A r \in Slots :
          (runs[r].pc = "await_provider" /\ runs'[r].raised # NoExc)
              => limiter'.quota_exceeded =
                    (limiter.quota_exceeded \/ C7_QuotaText(runs'[r].raised.msg))
    /\ (\A r \in Slots :
            ~(runs[r].pc = "await_provider" /\ runs'[r].raised # NoExc))
          => limiter' = limiter

C19_QuotaStateFrame == [][C19_Step]_vars

\* C19 witness: one run stands at the error event of a provider error that is
\* no quota error, another at the error event of a limiter timeout, and the
\* quota-exceeded state is not set.
C19_Witness ==
    \E r, q \in Slots :
        /\ runs[r].pc = "yielded_error"
        /\ runs[r].raised = Exc("ProviderError", "boom")
        /\ runs[q].pc = "yielded_error"
        /\ runs[q].timed_out
        /\ ~limiter.quota_exceeded

====
